---- MODULE Spec2Model ----
(***************************************************************************)
(* A model of find-unused-steps.mjs: the zx script that lists the Gauge    *)
(* step names and concepts no specification file refers to.                *)
(*                                                                         *)
(* Text is modelled as a sequence of one-character strings, so that the    *)
(* regular expressions and the shell pipelines of the script are computed  *)
(* and not assumed.                                                        *)
(***************************************************************************)
EXTENDS Integers, Sequences, FiniteSets, TLC

VARIABLES
    pc,           \* where exec() stands
    files,        \* the files under <project>/specs as found on disk at start
    normSpawned,  \* the indices of the spec files whose newline command was spawned
    normDone,     \* the indices of the spec files whose newline command has finished
    src,          \* the lines of the concatenated *kt files under src/test/kotlin
    steps,        \* const steps (exec): a sequence of step groups
    stepRes,      \* per step definition: the state and outcome of its isUnused call
    concepts,     \* const concepts (exec)
    conceptRes,   \* per concept: the state and outcome of its isUnused call
    out,          \* what console.log has printed, in order
    unusedSteps,  \* const unusedSteps (exec)
    unusedConcepts, \* const unusedConcepts (exec)
    error,        \* the call whose rejected promise ended exec(), or "none"
    pName,        \* SpecPattern: the name given to createStepNamePattern
    pPattern,     \* SpecPattern: the pattern it returned
    mName,        \* SpecMatch: the declared name
    mLine,        \* SpecMatch: the line grep -E is given
    mResult,      \* SpecMatch: whether grep -E selected the line
    nOrig,        \* SpecNormalize: the file's bytes before the first run
    nContent,     \* SpecNormalize: the file's bytes now
    nRuns         \* SpecNormalize: how many times the newline command ran on it

vars == <<pc, files, normSpawned, normDone, src, steps, stepRes, concepts,
          conceptRes, unusedSteps, unusedConcepts, out, error, pName, pPattern, mName, mLine, mResult,
          nOrig, nContent, nRuns>>

driverVars == <<pc, files, normSpawned, normDone, src, steps, stepRes, concepts,
                conceptRes, unusedSteps, unusedConcepts, out, error>>
patternVars == <<pName, pPattern>>
matchVars == <<mName, mLine, mResult>>
normVars == <<nOrig, nContent, nRuns>>

----------------------------------------------------------------------------
(* Text helpers *)

NL == "\n"

IsSpace(c) == c \in {" ", "\t"}

Min(S) == CHOOSE x \in S : \A y \in S : x <= y

\* All texts over alphabet A of length at most n.
TextsUpTo(A, n) == UNION {[1..k -> A] : k \in 0..n}

RECURSIVE Flatten(_)
Flatten(ss) == IF ss = <<>> THEN <<>> ELSE Head(ss) \o Flatten(Tail(ss))

\* String.prototype.replaceAll(c, ""): the text without any c.
RemoveAll(s, c) == SelectSeq(s, LAMBDA x : x # c)

\* String.prototype.trim().
RECURSIVE TrimLeft(_)
TrimLeft(s) == IF s # <<>> /\ (IsSpace(Head(s)) \/ Head(s) = NL) THEN TrimLeft(Tail(s)) ELSE s

RECURSIVE TrimRight(_)
TrimRight(s) ==
    IF s # <<>> /\ (IsSpace(s[Len(s)]) \/ s[Len(s)] = NL)
    THEN TrimRight(SubSeq(s, 1, Len(s) - 1)) ELSE s

Trim(s) == TrimRight(TrimLeft(s))

\* Whether sub occurs in s.
Contains(s, sub) ==
    \E i \in 1..(Len(s) - Len(sub) + 1) : SubSeq(s, i, i + Len(sub) - 1) = sub

\* The lines of a text as a line tool (grep, awk) reads them: every piece ended
\* by a newline, and a last piece without one when it is not empty.
RECURSIVE LinesFrom(_, _)
LinesFrom(t, cur) ==
    IF t = <<>> THEN (IF cur = <<>> THEN <<>> ELSE <<cur>>)
    ELSE IF Head(t) = NL THEN <<cur>> \o LinesFrom(Tail(t), <<>>)
    ELSE LinesFrom(Tail(t), Append(cur, Head(t)))

Lines(t) == LinesFrom(t, <<>>)

----------------------------------------------------------------------------
(* createStepNamePattern and the definitions *)

\* name.replaceAll(/<.*?>/g, ".+"): scanning from position i, a "<" with a ">"
\* after it is replaced, up to the nearest ">", by the two characters .+
RECURSIVE ReplacePlaceholdersFrom(_, _)
ReplacePlaceholdersFrom(s, i) ==
    IF i > Len(s) THEN <<>>
    ELSE IF s[i] = "<" /\ \E j \in (i + 1)..Len(s) : s[j] = ">"
    THEN <<".", "+">>
         \o ReplacePlaceholdersFrom(s, Min({j \in (i + 1)..Len(s) : s[j] = ">"}) + 1)
    ELSE <<s[i]>> \o ReplacePlaceholdersFrom(s, i + 1)

\* The replacement with a greedy span, /<.*>/g: from the first "<" to the last ">".
ReplacePlaceholdersGreedy(s) ==
    LET opens == {i \in 1..Len(s) : s[i] = "<" /\ \E j \in (i + 1)..Len(s) : s[j] = ">"} IN
    IF opens = {} THEN s
    ELSE LET i == Min(opens)
             j == CHOOSE x \in (i + 1)..Len(s) :
                      s[x] = ">" /\ \A y \in (x + 1)..Len(s) : s[y] # ">" IN
         SubSeq(s, 1, i - 1) \o <<".", "+">> \o SubSeq(s, j + 1, Len(s))

ReplacePlaceholders(s) == ReplacePlaceholdersFrom(s, 1)

PatternPrefix == <<"^", "\\", "*", "\\", "s", "+">>
\* The suffix without its end-of-line anchor.
PatternSuffixUnanchored == <<"\\", "s", "*">>

PatternSuffix == <<"\\", "s", "*", "$">>

createStepNamePattern(name) == PatternPrefix \o ReplacePlaceholders(name) \o PatternSuffix

createDefinition(stepName, pattern) == [stepName |-> stepName, pattern |-> pattern]

createDefinitions(stepNames) ==
    [i \in 1..Len(stepNames) |->
        createDefinition(stepNames[i], createStepNamePattern(stepNames[i]))]

----------------------------------------------------------------------------
(* grep -E: the extended regular expressions the script builds *)

Atom(kind, ch) == [kind |-> kind, ch |-> ch, q |-> "1"]

\* A quantifier after an already quantified atom: (a+)+ is a+, anything else a*.
Requantify(tok, c) ==
    [tok EXCEPT !.q = IF tok.q = "1" \/ tok.q = c THEN c ELSE "*"]

\* The pattern text as a sequence of atoms, each with its quantifier.
RECURSIVE EreTokensFrom(_, _, _)
EreTokensFrom(p, i, acc) ==
    IF i > Len(p) THEN acc
    ELSE LET c == p[i] IN
        IF c = "\\" /\ i < Len(p)
        THEN EreTokensFrom(p, i + 2,
                 Append(acc, IF p[i + 1] = "s" THEN Atom("space", " ")
                             ELSE Atom("lit", p[i + 1])))
        ELSE IF c = "^" THEN EreTokensFrom(p, i + 1, Append(acc, Atom("bol", c)))
        ELSE IF c = "$" THEN EreTokensFrom(p, i + 1, Append(acc, Atom("eol", c)))
        ELSE IF c = "." THEN EreTokensFrom(p, i + 1, Append(acc, Atom("any", c)))
        ELSE IF c \in {"+", "*"} /\ acc # <<>>
                /\ acc[Len(acc)].kind \notin {"bol", "eol"}
        THEN EreTokensFrom(p, i + 1,
                 [acc EXCEPT ![Len(acc)] = Requantify(acc[Len(acc)], c)])
        ELSE EreTokensFrom(p, i + 1, Append(acc, Atom("lit", c)))

EreTokens(p) == EreTokensFrom(p, 1, <<>>)

CharOK(tok, ch) ==
    CASE tok.kind = "any" -> TRUE
      [] tok.kind = "space" -> IsSpace(ch)
      [] OTHER -> ch = tok.ch

\* The positions of the line a match can stand at after tok, having stood at one of P.
EreStep(tok, P, line) ==
    CASE tok.kind = "bol" -> P \cap {0}
      [] tok.kind = "eol" -> P \cap {Len(line)}
      [] tok.q = "1" -> {p + 1 : p \in {x \in P : x < Len(line) /\ CharOK(tok, line[x + 1])}}
      [] OTHER ->
          {r \in 0..Len(line) :
              \E p \in P : /\ (IF tok.q = "+" THEN p < r ELSE p <= r)
                           /\ \A k \in (p + 1)..r : CharOK(tok, line[k])}

RECURSIVE EreRun(_, _, _, _)
EreRun(toks, i, P, line) ==
    IF i > Len(toks) \/ P = {} THEN P
    ELSE EreRun(toks, i + 1, EreStep(toks[i], P, line), line)

\* Whether grep -E pattern selects the line: some part of the line matches.
EreMatch(pattern, line) == EreRun(EreTokens(pattern), 1, 0..Len(line), line) # {}

----------------------------------------------------------------------------
(* formatForStepSearch: the newline command run on one spec file *)

\* tail -c1 file
TailC1(bytes) == IF bytes = <<>> THEN <<>> ELSE <<bytes[Len(bytes)]>>

\* wc -l
WcL(bytes) == Len(SelectSeq(bytes, LAMBDA b : b = NL))

\* echo >> file, without the test before it.
NormalizeContentAlways(bytes) == Append(bytes, NL)

\* [ $(tail -c1 file | wc -l) -eq 0 ] && echo >> file || :
NormalizeContent(bytes) == IF WcL(TailC1(bytes)) = 0 THEN Append(bytes, NL) ELSE bytes

----------------------------------------------------------------------------
(* isUnused: find -type f -exec cat {} + | grep -E pattern | wc -l *)

\* grep's exit status: 0 when a line was selected, 1 when none was.
GrepStatus(pattern, text) ==
    IF \E k \in 1..Len(Lines(text)) : EreMatch(pattern, Lines(text)[k]) THEN 0 ELSE 1

\* The pipeline without pipefail: its status is that of wc, its last command.
PipelineStatusLast(readFailed, grepStatus) == 0

\* zx runs the pipeline under set -o pipefail: its status is non-zero as soon as
\* find/cat (the read of the corpus) or grep ends non-zero; wc always ends 0.
PipelineStatus(readFailed, grepStatus) ==
    IF readFailed THEN 1 ELSE grepStatus

\* try { await $`...`; return false } catch (e) { return true }
isUnused(definition, contents, readFailed) ==
    PipelineStatus(readFailed, GrepStatus(definition.pattern, Flatten(contents))) # 0

----------------------------------------------------------------------------
(* findSteps: find -name "*kt" | xargs cat | awk | awk | grep -o *)

StepMarker == <<"@", "S", "t", "e", "p">>
Quote == "\""

\* awk '/@Step/,/\)/': the lines from one holding @Step through the next one
\* holding ")" (the same line when it holds both).
RECURSIVE AwkRange(_, _)
AwkRange(lines, inRange) ==
    IF lines = <<>> THEN <<>>
    ELSE LET l == Head(lines) IN
        IF inRange \/ Contains(l, StepMarker)
        THEN <<l>> \o AwkRange(Tail(lines), ~Contains(l, <<")">>))
        ELSE AwkRange(Tail(lines), FALSE)

\* awk '/,$/ { printf("%s", $0); next } 1': a line ending in a comma is printed
\* without its newline, so the next line continues it.
RECURSIVE AwkJoin(_, _)
AwkJoin(lines, cur) ==
    IF lines = <<>> THEN (IF cur = <<>> THEN <<>> ELSE <<cur>>)
    ELSE LET l == Head(lines) IN
        IF l # <<>> /\ l[Len(l)] = ","
        THEN AwkJoin(Tail(lines), cur \o l)
        ELSE <<cur \o l>> \o AwkJoin(Tail(lines), <<>>)

QuotePositions(l) == {i \in 1..Len(l) : l[i] = Quote}

\* grep -o '".*"': of each line with two quotes or more, the part from its first
\* quote to its last one; nothing of the other lines.
RECURSIVE GrepQuoted(_)
GrepQuoted(lines) ==
    IF lines = <<>> THEN <<>>
    ELSE LET l == Head(lines)
             Q == QuotePositions(l) IN
        (IF Cardinality(Q) >= 2
         THEN <<SubSeq(l, Min(Q), Min({i \in Q : \A j \in Q : j <= i}))>>
         ELSE <<>>) \o GrepQuoted(Tail(lines))

\* line.match(/".*?"/g): the quoted pieces, each from a quote to the nearest next one.
RECURSIVE QuotedPieces(_, _)
QuotedPieces(l, i) ==
    LET Q == {q \in QuotePositions(l) : q >= i} IN
    IF Cardinality(Q) < 2 THEN <<>>
    ELSE LET a == Min(Q)
             b == Min(Q \ {a}) IN
         <<SubSeq(l, a, b)>> \o QuotedPieces(l, b + 1)

\* line.match(...).map(stepName => stepName.replaceAll("\"", "")), then createDefinitions.
convertToStepNames(line) ==
    LET pieces == QuotedPieces(line, 1) IN
    createDefinitions([i \in 1..Len(pieces) |-> RemoveAll(pieces[i], Quote)])

\* What the pipeline of findSteps writes to stdout, as lines.
RawSteps(srcLines) == GrepQuoted(AwkJoin(AwkRange(srcLines, FALSE), <<>>))

\* The pipeline ends with grep's status under pipefail: 1 when grep printed nothing,
\* and zx then rejects the promise findSteps awaits.
findStepsRejects(srcLines) == RawSteps(srcLines) = <<>>

\* rawSteps.stdout.split("\n").filter(line => line.length > 0).map(convertToStepNames)
findSteps(srcLines) ==
    LET raw == SelectSeq(RawSteps(srcLines), LAMBDA l : Len(l) > 0) IN
    [i \in 1..Len(raw) |-> convertToStepNames(raw[i])]

----------------------------------------------------------------------------
(* findConcepts *)

\* find specsDir -name "*.cpt": the contents of the concept files, in find's order.
CptContents(contents, isCpt) ==
    LET idx == SelectSeq([i \in 1..Len(contents) |-> i], LAMBDA i : isCpt[i]) IN
    [k \in 1..Len(idx) |-> contents[idx[k]]]

\* grep -oE '^\#\s+.*\s*$': a "#", whitespace, then anything; the whole line is printed.
IsConceptHeader(l) == Len(l) >= 2 /\ l[1] = "#" /\ IsSpace(l[2])

RawConcepts(contents, isCpt) ==
    SelectSeq(Lines(Flatten(CptContents(contents, isCpt))), IsConceptHeader)

\* The second pipeline of findConcepts ends with grep's status: 1 when there are
\* concept files and none holds a header line.
findConceptsRejects(contents, isCpt) ==
    /\ CptContents(contents, isCpt) # <<>>
    /\ RawConcepts(contents, isCpt) = <<>>

findConcepts(contents, isCpt) ==
    IF CptContents(contents, isCpt) = <<>> THEN <<>>
    ELSE LET raw == RawConcepts(contents, isCpt)
             names == [i \in 1..Len(raw) |-> Trim(RemoveAll(raw[i], "#"))] IN
         [i \in 1..Len(names) |->
             createDefinition(names[i], createStepNamePattern(names[i]))]

----------------------------------------------------------------------------
(* findUnusedSteps, findUnusedConcepts and the printers *)

\* {...definition, unused: unused}
WithUnused(definition, unused) ==
    [stepName |-> definition.stepName, pattern |-> definition.pattern, unused |-> unused]

AnyUnused(step) == \E i \in 1..Len(step) : step[i].unused

\* result.filter(step => step.some(definition => definition.unused))
findUnusedSteps(result) == SelectSeq(result, AnyUnused)

\* printUnusedSteps without its filter: every member of a flagged group.
printUnusedStepsAll(flagged) ==
    Flatten([g \in 1..Len(flagged) |->
        [i \in 1..Len(flagged[g]) |-> flagged[g][i].stepName]])

\* The names printUnusedSteps prints after its heading, in order.
printUnusedSteps(flagged) ==
    Flatten([g \in 1..Len(flagged) |->
        LET kept == SelectSeq(flagged[g], LAMBDA d : d.unused) IN
        [i \in 1..Len(kept) |-> kept[i].stepName]])

\* result.filter(concept => concept.unused)
findUnusedConcepts(result) == SelectSeq(result, LAMBDA c : c.unused)

\* The names printUnusedConcepts prints after its heading, in order.
printUnusedConcepts(flagged) == [i \in 1..Len(flagged) |-> flagged[i].stepName]

\* printSummary without its "ALL CLEAN!" branch: the counts are always printed.
printSummaryCounts(allSteps, flaggedSteps, allConcepts, flaggedConcepts) ==
    << <<"Unused steps", Len(flaggedSteps), Len(allSteps)>>,
       <<"Unused step names",
         Len(SelectSeq(Flatten(flaggedSteps), LAMBDA d : d.unused)),
         Len(Flatten(allSteps))>>,
       <<"Unused concepts", Len(flaggedConcepts), Len(allConcepts)>> >>

\* The lines printSummary prints between its two rules.
printSummary(allSteps, flaggedSteps, allConcepts, flaggedConcepts) ==
    LET stepNameCount == Len(Flatten(allSteps))
        unusedStepNameCount ==
            Len(SelectSeq(Flatten(flaggedSteps), LAMBDA d : d.unused)) IN
    IF unusedStepNameCount > 0 \/ Len(flaggedConcepts) > 0
    THEN << <<"Unused steps", Len(flaggedSteps), Len(allSteps)>>,
            <<"Unused step names", unusedStepNameCount, stepNameCount>>,
            <<"Unused concepts", Len(flaggedConcepts), Len(allConcepts)>> >>
    ELSE << <<"ALL CLEAN!">> >>

----------------------------------------------------------------------------
(* The projects the runs are checked on *)

\* No *kt file under src/test/kotlin.
SrcNone ==
    <<  >>

\* One step annotation, without any quoted name.
SrcNoQuotes ==
    << <<"@", "S", "t", "e", "p", "(", ")">>,
       <<"f", "u", "n", " ", "f", "(", ")", " ", "{">> >>

\* One step with two aliases on one line.
SrcAliases ==
    << <<"@", "S", "t", "e", "p", "(", Quote, "a", Quote, ",", " ", Quote, "b", " ", "<", "x", ">", Quote, ")">>,
       <<"f", "u", "n", " ", "f", "(", ")", " ", "{", "}">> >>

\* A step wrapped over two lines, an annotation without a name, a one-line step.
SrcWrapped ==
    << <<"@", "S", "t", "e", "p", "(", Quote, "a", Quote, ",">>,
       <<Quote, "c", Quote, ")">>,
       <<"f", "u", "n", " ", "f", "(", ")", " ", "{">>,
       <<"@", "S", "t", "e", "p", "(", ")">>,
       <<"@", "S", "t", "e", "p", "(", Quote, "b", " ", "<", "x", ">", Quote, ")", " ", "f", "u", "n", " ", "g", "(", ")">> >>

Sources == {SrcNone, SrcNoQuotes, SrcAliases, SrcWrapped}

\* An empty specs directory.
CorpusEmpty ==
    <<  >>

\* One spec file using step a.
CorpusA ==
    << [cpt |-> FALSE, content |-> <<"*", " ", "a", NL>>] >>

\* Two spec files, the first without a final newline.
CorpusRace ==
    << [cpt |-> FALSE, content |-> <<"*", " ", "a">>],
       [cpt |-> FALSE, content |-> <<"*", " ", "b", " ", "1", NL>>] >>

\* A spec file using concept c, and the concept file declaring it.
CorpusConcept ==
    << [cpt |-> FALSE, content |-> <<"*", " ", "a", NL, "*", " ", "c", NL>>],
       [cpt |-> TRUE, content |-> <<"#", " ", "c", NL, "*", " ", "b", " ", "1">>] >>

\* A concept file declaring c and d; only d is used.
CorpusUnusedConcept ==
    << [cpt |-> TRUE, content |-> <<"#", " ", "c", NL, "*", " ", "a", NL, "#", " ", "d", NL, "*", " ", "b", " ", "1", NL>>],
       [cpt |-> FALSE, content |-> <<"*", " ", "d", NL>>] >>

\* A concept file without any header line.
CorpusCptNoHeader ==
    << [cpt |-> TRUE, content |-> <<"*", " ", "a", NL>>] >>

Corpora == {CorpusEmpty, CorpusA, CorpusRace, CorpusConcept, CorpusUnusedConcept,
            CorpusCptNoHeader}

----------------------------------------------------------------------------
(* exec: the run of the script *)

Pending == [st |-> "pending", unused |-> FALSE, readFailed |-> FALSE, seen |-> {}]

\* The bytes of the spec files on disk once the newline commands in `done` have run.
ContentsNow(done) ==
    [i \in 1..Len(files) |->
        IF i \in done THEN NormalizeContent(files[i].content) ELSE files[i].content]

IsCpt == [i \in 1..Len(files) |-> files[i].cpt]

Say(section, body) == Append(out, [section |-> section, body |-> body])

\* findUnusedSteps without its await: nothing is waited for.
StepChecksNotAwaited == TRUE

\* await Promise.all(...) of findUnusedSteps: every isUnused call has returned.
StepChecksReturned ==
    \A g \in 1..Len(stepRes) : \A i \in 1..Len(stepRes[g]) : stepRes[g][i].st = "done"

\* await Promise.all(...) of findUnusedConcepts.
ConceptChecksReturned == \A i \in 1..Len(conceptRes) : conceptRes[i].st = "done"

\* await Promise.all(promises) of formatForStepSearch: the promises are those of the
\* async callbacks, which return without awaiting the command they start, so
\* nothing is waited for.
FormatAwaited == TRUE

PatternIdle == UNCHANGED <<patternVars, matchVars, normVars>>

printTarget ==
    /\ pc = "start"
    /\ out' = Say("target", <<>>)
    /\ pc' = "format"
    /\ UNCHANGED <<files, normSpawned, normDone, src, steps, stepRes, concepts,
                   conceptRes, unusedSteps, unusedConcepts, error>>
    /\ PatternIdle

\* formatForStepSearch up to the start of the commands: findSpecFiles, then one
\* newline command started per file. (In an empty directory findSpecFiles gives
\* [''] and the one command, on the path '', changes no file.)
formatForStepSearch ==
    /\ pc = "format"
    /\ normSpawned' = 1..Len(files)
    /\ pc' = "formatting"
    /\ UNCHANGED <<files, normDone, src, steps, stepRes, concepts, conceptRes,
                   unusedSteps, unusedConcepts, out, error>>
    /\ PatternIdle

\* The rest of formatForStepSearch: the await and console.log('Format done.\n').
FormatDone ==
    /\ pc = "formatting"
    /\ FormatAwaited
    /\ out' = Say("format", <<>>)
    /\ pc' = "findSteps"
    /\ UNCHANGED <<files, normSpawned, normDone, src, steps, stepRes, concepts,
                   conceptRes, unusedSteps, unusedConcepts, error>>
    /\ PatternIdle

\* One started newline command runs to its end, whenever the system schedules it.
RunNewlineCommand(i) ==
    /\ i \in normSpawned \ normDone
    /\ normDone' = normDone \cup {i}
    /\ UNCHANGED <<pc, files, normSpawned, src, steps, stepRes, concepts, conceptRes,
                   unusedSteps, unusedConcepts, out, error>>
    /\ PatternIdle

\* const steps = await findSteps(srcDir), then findUnusedSteps starts every isUnused.
ExecFindSteps ==
    /\ pc = "findSteps"
    /\ IF findStepsRejects(src)
       THEN /\ pc' = "crashed"
            /\ error' = "findSteps"
            /\ UNCHANGED <<steps, stepRes>>
       ELSE /\ steps' = findSteps(src)
            /\ stepRes' = [g \in 1..Len(steps') |-> [i \in 1..Len(steps'[g]) |-> Pending]]
            /\ pc' = "checkSteps"
            /\ UNCHANGED error
    /\ UNCHANGED <<files, normSpawned, normDone, src, concepts, conceptRes,
                   unusedSteps, unusedConcepts, out>>
    /\ PatternIdle

\* One isUnused call of findUnusedSteps scans the corpus as it is on disk now.
ScanStep(g, i, readFailed) ==
    /\ pc = "checkSteps"
    /\ stepRes[g][i].st = "pending"
    /\ stepRes' = [stepRes EXCEPT ![g][i] =
           [st |-> "done",
            unused |-> isUnused(steps[g][i], ContentsNow(normDone), readFailed),
            readFailed |-> readFailed,
            seen |-> normDone]]
    /\ UNCHANGED <<pc, files, normSpawned, normDone, src, steps, concepts, conceptRes,
                   unusedSteps, unusedConcepts, out, error>>
    /\ PatternIdle

\* findUnusedSteps returns and printUnusedSteps prints.
PrintUnusedSteps ==
    /\ pc = "checkSteps"
    /\ StepChecksReturned
    /\ unusedSteps' = findUnusedSteps(
           [g \in 1..Len(steps) |-> [i \in 1..Len(steps[g]) |->
               WithUnused(steps[g][i], stepRes[g][i].unused)]])
    /\ out' = Say("unusedSteps", printUnusedSteps(unusedSteps'))
    /\ pc' = "findConcepts"
    /\ UNCHANGED <<files, normSpawned, normDone, src, steps, stepRes, concepts,
                   conceptRes, unusedConcepts, error>>
    /\ PatternIdle

\* const concepts = await findConcepts(specsDir); with concepts, findUnusedConcepts
\* starts every isUnused; without, unusedConcepts is [].
ExecFindConcepts ==
    /\ pc = "findConcepts"
    /\ IF findConceptsRejects(ContentsNow(normDone), IsCpt)
       THEN /\ pc' = "crashed"
            /\ error' = "findConcepts"
            /\ UNCHANGED <<concepts, conceptRes>>
       ELSE /\ concepts' = findConcepts(ContentsNow(normDone), IsCpt)
            /\ conceptRes' = [i \in 1..Len(concepts') |-> Pending]
            /\ pc' = IF Len(concepts') > 0 THEN "checkConcepts" ELSE "printConcepts"
            /\ UNCHANGED error
    /\ UNCHANGED <<files, normSpawned, normDone, src, steps, stepRes, unusedSteps,
                   unusedConcepts, out>>
    /\ PatternIdle

\* One isUnused call of findUnusedConcepts scans the corpus as it is on disk now.
ScanConcept(i, readFailed) ==
    /\ pc = "checkConcepts"
    /\ conceptRes[i].st = "pending"
    /\ conceptRes' = [conceptRes EXCEPT ![i] =
           [st |-> "done",
            unused |-> isUnused(concepts[i], ContentsNow(normDone), readFailed),
            readFailed |-> readFailed,
            seen |-> normDone]]
    /\ UNCHANGED <<pc, files, normSpawned, normDone, src, steps, stepRes, concepts,
                   unusedSteps, unusedConcepts, out, error>>
    /\ PatternIdle

\* findUnusedConcepts returns.
AwaitUnusedConcepts ==
    /\ pc = "checkConcepts"
    /\ ConceptChecksReturned
    /\ unusedConcepts' = findUnusedConcepts(
           [i \in 1..Len(concepts) |-> WithUnused(concepts[i], conceptRes[i].unused)])
    /\ pc' = "printConcepts"
    /\ UNCHANGED <<files, normSpawned, normDone, src, steps, stepRes, concepts,
                   conceptRes, unusedSteps, out, error>>
    /\ PatternIdle

PrintUnusedConcepts ==
    /\ pc = "printConcepts"
    /\ out' = Say("unusedConcepts", printUnusedConcepts(unusedConcepts))
    /\ pc' = "summary"
    /\ UNCHANGED <<files, normSpawned, normDone, src, steps, stepRes, concepts,
                   conceptRes, unusedSteps, unusedConcepts, error>>
    /\ PatternIdle

PrintSummary ==
    /\ pc = "summary"
    /\ out' = Say("summary", printSummary(steps, unusedSteps, concepts, unusedConcepts))
    /\ pc' = "done"
    /\ UNCHANGED <<files, normSpawned, normDone, src, steps, stepRes, concepts,
                   conceptRes, unusedSteps, unusedConcepts, error>>
    /\ PatternIdle

Idle == <<>>

Init ==
    /\ pc = "start"
    /\ files \in Corpora
    /\ src \in Sources
    /\ normSpawned = {}
    /\ normDone = {}
    /\ steps = <<>>
    /\ stepRes = <<>>
    /\ concepts = <<>>
    /\ conceptRes = <<>>
    /\ unusedSteps = <<>>
    /\ unusedConcepts = <<>>
    /\ out = <<>>
    /\ error = "none"
    /\ pName = Idle /\ pPattern = Idle
    /\ mName = Idle /\ mLine = Idle /\ mResult = "none"
    /\ nOrig = Idle /\ nContent = Idle /\ nRuns = 0

Next ==
    \/ printTarget
    \/ formatForStepSearch
    \/ FormatDone
    \/ \E i \in 1..Len(files) : RunNewlineCommand(i)
    \/ ExecFindSteps
    \/ \E g \in 1..Len(stepRes) : \E i \in 1..Len(stepRes[g]) :
           \E readFailed \in BOOLEAN : ScanStep(g, i, readFailed)
    \/ PrintUnusedSteps
    \/ ExecFindConcepts
    \/ \E i \in 1..Len(conceptRes) : \E readFailed \in BOOLEAN : ScanConcept(i, readFailed)
    \/ AwaitUnusedConcepts
    \/ PrintUnusedConcepts
    \/ PrintSummary

Spec == Init /\ [][Next]_vars

----------------------------------------------------------------------------
(* createStepNamePattern on every short name *)

MaxNameLen == 4
PatternAlphabet == {"a", " ", "<", ">", ".", "+"}

DriverIdle ==
    /\ pc = "idle" /\ files = <<>> /\ src = <<>>
    /\ normSpawned = {} /\ normDone = {}
    /\ steps = <<>> /\ stepRes = <<>> /\ concepts = <<>> /\ conceptRes = <<>>
    /\ unusedSteps = <<>> /\ unusedConcepts = <<>> /\ out = <<>> /\ error = "none"

InitPattern ==
    /\ DriverIdle
    /\ pName \in TextsUpTo(PatternAlphabet, MaxNameLen)
    /\ pPattern = Idle
    /\ mName = Idle /\ mLine = Idle /\ mResult = "none"
    /\ nOrig = Idle /\ nContent = Idle /\ nRuns = 0

BuildPattern ==
    /\ pPattern = Idle
    /\ pPattern' = createStepNamePattern(pName)
    /\ UNCHANGED <<driverVars, pName, matchVars, normVars>>

NextPattern == BuildPattern

SpecPattern == InitPattern /\ [][NextPattern]_vars

----------------------------------------------------------------------------
(* grep -E with the pattern of a name, on every short line *)

MaxMatchNameLen == 3
MaxLineLen == 5
MatchNameAlphabet == {"a", " ", "<", ">"}
LineAlphabet == {"*", " ", "a"}

NameAdd == <<"A", "d", "d", " ", "<", "a", ">", " ", "a", "n", "d", " ", "<", "b", ">">>
NameCheckout == <<"C", "h", "e", "c", "k", "o", "u", "t", " ", "F", "l", "o", "w">>
NameDot == <<"a", ".">>
LineAdd == <<"*", " ", "A", "d", "d", " ", "3", " ", "a", "n", "d", " ", "4">>
LineAddNoMarker == <<"A", "d", "d", " ", "3", " ", "a", "n", "d", " ", "4">>
LineAddIncomplete == <<"*", " ", "A", "d", "d", " ", "3", " ", "a", "n", "d">>
LineCheckout == <<"*", " ", "C", "h", "e", "c", "k", "o", "u", "t", " ", "F", "l", "o", "w">>
LineCheckouts == <<"*", " ", "C", "h", "e", "c", "k", "o", "u", "t", " ", "F", "l", "o", "w", "s">>
LineTab == <<"*", "\t", "a", " ", "\t">>

MatchNames == TextsUpTo(MatchNameAlphabet, MaxMatchNameLen) \cup {NameAdd, NameCheckout, NameDot}
MatchLines ==
    TextsUpTo(LineAlphabet, MaxLineLen)
        \cup {LineAdd, LineAddNoMarker, LineAddIncomplete, LineCheckout, LineCheckouts, LineTab}

InitMatch ==
    /\ DriverIdle
    /\ pName = Idle /\ pPattern = Idle
    /\ mName \in MatchNames
    /\ mLine = Idle /\ mResult = "none"
    /\ nOrig = Idle /\ nContent = Idle /\ nRuns = 0

\* echo line | grep -E pattern, as isUnused runs it on each line of the corpus.
GrepLine(line) ==
    /\ mResult = "none"
    /\ mLine' = line
    /\ mResult' = IF GrepStatus(createStepNamePattern(mName), line \o <<NL>>) = 0
                  THEN "selected" ELSE "rejected"
    /\ UNCHANGED <<driverVars, patternVars, mName, normVars>>

NextMatch == \E line \in MatchLines : GrepLine(line)

SpecMatch == InitMatch /\ [][NextMatch]_vars

----------------------------------------------------------------------------
(* The newline command on every short file *)

MaxContentLen == 6
MaxRuns == 2
ContentAlphabet == {"a", NL}

InitNormalize ==
    /\ DriverIdle
    /\ pName = Idle /\ pPattern = Idle
    /\ mName = Idle /\ mLine = Idle /\ mResult = "none"
    /\ nOrig \in TextsUpTo(ContentAlphabet, MaxContentLen)
    /\ nContent = nOrig
    /\ nRuns = 0

RunNewline ==
    /\ nRuns < MaxRuns
    /\ nContent' = NormalizeContent(nContent)
    /\ nRuns' = nRuns + 1
    /\ UNCHANGED <<driverVars, patternVars, matchVars, nOrig>>

NextNormalize == RunNewline

SpecNormalize == InitNormalize /\ [][NextNormalize]_vars

----------------------------------------------------------------------------
(* Vocabulary of the properties *)

EndsWithNewline(t) == t # <<>> /\ t[Len(t)] = NL

Last(t) == t[Len(t)]

Range(f) == {f[i] : i \in DOMAIN f}

StepIdx == UNION {{<<g, i>> : i \in 1..Len(stepRes[g])} : g \in 1..Len(stepRes)}

\* The isUnused calls that have returned, each with the definition it was given.
DoneChecks ==
    {[d |-> steps[x[1]][x[2]], r |-> stepRes[x[1]][x[2]]] :
        x \in {y \in StepIdx : stepRes[y[1]][y[2]].st = "done"}}
    \cup {[d |-> concepts[i], r |-> conceptRes[i]] :
        i \in {j \in 1..Len(conceptRes) : conceptRes[j].st = "done"}}

Printed(section) == {k \in 1..Len(out) : out[k].section = section}

BodyOf(section) == out[CHOOSE k \in Printed(section) : TRUE].body

\* The placeholder spans of a name, as pairs <<first, last>> of positions: the
\* first "<" with a ">" after it, up to the nearest such ">", and again after it.
RECURSIVE SpansFrom(_, _)
SpansFrom(s, from) ==
    LET opens == {i \in from..Len(s) : s[i] = "<" /\ \E j \in (i + 1)..Len(s) : s[j] = ">"} IN
    IF opens = {} THEN {}
    ELSE LET i == Min(opens)
             j == Min({x \in (i + 1)..Len(s) : s[x] = ">"}) IN
         {<<i, j>>} \cup SpansFrom(s, j + 1)

Spans(s) == SpansFrom(s, 1)

InSpan(s, i) == \E sp \in Spans(s) : sp[1] <= i /\ i <= sp[2]

\* The positions where the wildcard token .+ stands in a text.
Wildcards(t) == {i \in 1..(Len(t) - 1) : t[i] = "." /\ t[i + 1] = "+"}

Delimiters(t) == {i \in 1..Len(t) : t[i] \in {"<", ">"}}

MetaChars == {".", "+", "*", "?", "(", ")", "[", "]", "{", "}", "|", "^", "$", "\\"}

NoMetaOutsidePlaceholders(s) == \A i \in 1..Len(s) : InSpan(s, i) \/ s[i] \notin MetaChars

\* A name as literal characters and holes, one hole per placeholder span.
RECURSIVE SegmentsFrom(_, _)
SegmentsFrom(s, i) ==
    IF i > Len(s) THEN <<>>
    ELSE IF \E sp \in Spans(s) : sp[1] = i
    THEN <<[hole |-> TRUE, ch |-> ""]>>
         \o SegmentsFrom(s, (CHOOSE sp \in Spans(s) : sp[1] = i)[2] + 1)
    ELSE <<[hole |-> FALSE, ch |-> s[i]]>> \o SegmentsFrom(s, i + 1)

\* Whether text is the name with every hole filled by one character or more.
RECURSIVE Instance(_, _)
Instance(segs, text) ==
    IF segs = <<>> THEN text = <<>>
    ELSE IF Head(segs).hole
    THEN \E k \in 1..Len(text) : Instance(Tail(segs), SubSeq(text, k + 1, Len(text)))
    ELSE text # <<>> /\ Head(text) = Head(segs).ch /\ Instance(Tail(segs), Tail(text))

\* A "*", whitespace, the name with its placeholders filled, optional whitespace.
IsStepCall(name, line) ==
    /\ Len(line) >= 2
    /\ line[1] = "*"
    /\ \E i \in 2..Len(line) : \E j \in i..Len(line) :
           /\ \A x \in 2..i : IsSpace(line[x])
           /\ \A x \in (j + 1)..Len(line) : IsSpace(line[x])
           /\ Instance(SegmentsFrom(name, 1), SubSeq(line, i + 1, j))

----------------------------------------------------------------------------
(* Properties of the run (Spec) *)

\* C1: when a usage check scans the corpus, the newline-normalization has been
\* done: no spec file it reads still lacks its final newline.
C1_NormalizedBeforeScan ==
    \A c \in DoneChecks :
        \A i \in 1..Len(files) : EndsWithNewline(ContentsNow(c.r.seen)[i])

\* C2: a usage check whose read of the corpus failed aborts the run, and its
\* declaration is not given the result "unused".
C2_ReadFailureAborts ==
    \A c \in DoneChecks : c.r.readFailed => (pc = "crashed" /\ ~c.r.unused)

\* No line the step pipeline hands to grep -o holds a quoted name.
NoQuotedStepName ==
    \A l \in Range(AwkJoin(AwkRange(src, FALSE), <<>>)) : Cardinality(QuotePositions(l)) < 2

\* C3: when step extraction finds no quoted step name, findSteps returns the empty
\* sequence and the run goes on instead of failing.
C3_NoStepNameIsEmptyResult ==
    (NoQuotedStepName /\ pc \notin {"start", "format", "formatting", "findSteps"})
        => (pc # "crashed" /\ error = "none" /\ steps = <<>>)

\* Some line of some file of the corpus, as read, matches the pattern.
SomeLineMatches(pattern, contents) ==
    \E f \in 1..Len(contents) : \E l \in Range(Lines(contents[f])) : EreMatch(pattern, l)

\* C4: on a readable corpus whose files all end with a newline, a declaration is
\* marked used exactly when a line of a file under specs matches its pattern.
C4_UsedIffSomeLineMatches ==
    \A c \in DoneChecks :
        LET contents == ContentsNow(c.r.seen) IN
        (~c.r.readFailed /\ \A f \in 1..Len(contents) : EndsWithNewline(contents[f]))
            => (~c.r.unused <=> SomeLineMatches(c.d.pattern, contents))

C4_Witness ==
    \E c \in DoneChecks : \E u \in DoneChecks :
        /\ Len(files) >= 2
        /\ ~c.r.readFailed /\ ~u.r.readFailed
        /\ \A f \in 1..Len(files) : /\ EndsWithNewline(ContentsNow(c.r.seen)[f])
                                    /\ EndsWithNewline(ContentsNow(u.r.seen)[f])
        /\ ~c.r.unused /\ u.r.unused
        /\ \E f \in 1..Len(files) : ~EndsWithNewline(files[f].content)

UnusedMembers(g) == {i \in 1..Len(stepRes[g]) : stepRes[g][i].unused}

\* The names of the unused members of group g, in their order.
UnusedNamesOf(g) ==
    LET idx == SelectSeq([i \in 1..Len(steps[g]) |-> i], LAMBDA i : i \in UnusedMembers(g)) IN
    [k \in 1..Len(idx) |-> steps[g][idx[k]].stepName]

GroupWithOutcome(g) ==
    [i \in 1..Len(steps[g]) |-> WithUnused(steps[g][i], stepRes[g][i].unused)]

\* C5: a step group is flagged exactly when one of its members is unused, and the
\* printed names are exactly the unused members of the groups, in order: a used
\* alias is never printed.
C5_FlaggedAndPrinted ==
    Printed("unusedSteps") # {} =>
        /\ Len(unusedSteps) = Cardinality({g \in 1..Len(steps) : UnusedMembers(g) # {}})
        /\ \A g \in 1..Len(steps) :
               (GroupWithOutcome(g) \in Range(unusedSteps)) <=> (UnusedMembers(g) # {})
        /\ BodyOf("unusedSteps") = Flatten([g \in 1..Len(steps) |-> UnusedNamesOf(g)])
        /\ \A g \in 1..Len(steps) : \A i \in 1..Len(steps[g]) :
               ~stepRes[g][i].unused => steps[g][i].stepName \notin Range(BodyOf("unusedSteps"))

C5_Witness ==
    /\ Printed("unusedSteps") # {}
    /\ \E g \in 1..Len(steps) : \E i \in 1..Len(steps[g]) : \E j \in 1..Len(steps[g]) :
           /\ stepRes[g][i].unused /\ ~stepRes[g][j].unused
           /\ ~stepRes[g][j].readFailed /\ ~stepRes[g][i].readFailed
           /\ BodyOf("unusedSteps") = <<steps[g][i].stepName>>

NoCptFiles == \A f \in 1..Len(files) : ~files[f].cpt

ConceptCountLine(n, of) == <<"Unused concepts", n, of>>

ReportSections == <<"target", "unusedSteps", "unusedConcepts", "summary">>

\* The sections of the report printed so far, in order.
SectionsPrinted ==
    LET kept == SelectSeq(out, LAMBDA e : e.section \in Range(ReportSections)) IN
    [k \in 1..Len(kept) |-> kept[k].section]

\* C10: the sections are printed once each, in the order target, unused steps,
\* unused concepts, summary; the unused steps only after every step usage check
\* has returned, concept extraction only after the unused steps, the summary last.
C10_Sequential ==
    /\ Len(SectionsPrinted) <= Len(ReportSections)
    /\ SectionsPrinted = SubSeq(ReportSections, 1, Len(SectionsPrinted))
    /\ pc = "done" => (SectionsPrinted = ReportSections /\ Last(out).section = "summary")
    /\ Printed("unusedSteps") # {} => \A x \in StepIdx : stepRes[x[1]][x[2]].st = "done"
    /\ (pc \in {"checkConcepts", "printConcepts", "summary", "done"}
            \/ error = "findConcepts" \/ concepts # <<>>)
           => Printed("unusedSteps") # {}
    /\ Printed("summary") # {} => pc = "done"

C10_Witness ==
    /\ pc = "done"
    /\ SectionsPrinted = ReportSections
    /\ Len(concepts) > 0
    /\ Cardinality(StepIdx) >= 3

----------------------------------------------------------------------------
(* Properties of createStepNamePattern (SpecPattern, SpecMatch) *)

\* C6 as stated: a name with k placeholder spans gives a pattern with exactly k
\* wildcard tokens .+ and without any "<" or ">".
C6_ExactlyKWildcards ==
    pPattern # Idle =>
        /\ Cardinality(Wildcards(pPattern)) = Cardinality(Spans(pName))
        /\ Delimiters(pPattern) = {}

\* The literal .+ a name holds outside its placeholder spans.
LiteralWildcards(s) == {i \in Wildcards(s) : ~InSpan(s, i) /\ ~InSpan(s, i + 1)}

\* Every "<" and ">" of the name is part of a placeholder span.
DelimitersPaired(s) == \A i \in Delimiters(s) : InSpan(s, i)

\* C6, amended: each of the k spans is replaced by one .+ and the rest is passed
\* through: k wildcard tokens plus one per literal .+ outside the spans, no whole
\* span left, and only the "<" and ">" that stood outside every span; so exactly
\* k tokens and no delimiter when the name has neither.
C6_WildcardPerSpan ==
    pPattern # Idle =>
        /\ Cardinality(Wildcards(pPattern))
               = Cardinality(Spans(pName)) + Cardinality(LiteralWildcards(pName))
        /\ Spans(pPattern) = {}
        /\ Cardinality(Delimiters(pPattern))
               = Cardinality({i \in Delimiters(pName) : ~InSpan(pName, i)})
        /\ (DelimitersPaired(pName) /\ LiteralWildcards(pName) = {})
               => /\ Cardinality(Wildcards(pPattern)) = Cardinality(Spans(pName))
                  /\ Delimiters(pPattern) = {}

C6_Witness ==
    /\ pPattern # Idle
    /\ Cardinality(Spans(pName)) = 2
    /\ Cardinality(Wildcards(pPattern)) = 2
    /\ Delimiters(pPattern) = {}

\* C7: for a name without regex metacharacters outside its placeholders, the
\* pattern selects a line exactly when the line is a "*", whitespace, the name
\* with each placeholder filled by one character or more, and optional
\* whitespace; with the four lines the specification gives as examples.
C7_PatternSelectsStepCalls ==
    mResult # "none" =>
        /\ NoMetaOutsidePlaceholders(mName)
               => ((mResult = "selected") <=> IsStepCall(mName, mLine))
        /\ (mName = NameAdd /\ mLine = LineAdd) => mResult = "selected"
        /\ (mName = NameAdd /\ mLine \in {LineAddNoMarker, LineAddIncomplete})
               => mResult = "rejected"
        /\ (mName = NameCheckout /\ mLine = LineCheckout) => mResult = "selected"
        /\ (mName = NameCheckout /\ mLine = LineCheckouts) => mResult = "rejected"

C7_Witness ==
    /\ mResult = "selected"
    /\ mName = NameAdd
    /\ mLine = LineAdd
    /\ IsStepCall(mName, mLine)

----------------------------------------------------------------------------
(* Properties of the newline command (SpecNormalize) *)

\* C9: the command leaves a file ending with a newline byte-identical, appends
\* exactly one newline to any other file, and run again changes nothing more.
C9_NormalizeIdempotent ==
    nRuns >= 1 =>
        nContent = IF EndsWithNewline(nOrig) THEN nOrig ELSE nOrig \o <<NL>>

C9_Witness ==
    /\ nRuns = 2
    /\ ~EndsWithNewline(nOrig)
    /\ Len(nOrig) > 0
    /\ nContent = nOrig \o <<NL>>

====
